---- MODULE Spec2Model ----
(***************************************************************************)
(* sentry.tasks.check_alerts: the periodic check_alerts task, the          *)
(* per-project check_project_alerts task, the counter store they read, the *)
(* task queue between them and the Alert records behind Alert.maybe_alert. *)
(*                                                                         *)
(* Time is in whole seconds.  Floating point arithmetic of the source is   *)
(* modelled by exact rational/real arithmetic, carried out on integers by  *)
(* cross-multiplication; the inputs at which int() of the double quotient  *)
(* of the normalization differs from the exact one are tabulated.          *)
(***************************************************************************)
EXTENDS Integers, Sequences, FiniteSets, Bags, TLC

VARIABLES
    clock,          \* timezone.now(), in seconds
    store,          \* ProjectCountByMinute: project -> bucket -> times_seen (NoRow: no row)
    config,         \* ProjectOption 'project_alert_pct' per project (NoOption: no row)
    queue,          \* bag of check_project_alerts tasks submitted and not yet started
    pending,        \* bag of maybe_alert calls past the cooldown lookup that have not written yet
    alerts,         \* Alert record per alert key: last_notified_at (Never: no record)
    notifications,  \* notifications issued, in order
    ticks,          \* number of check_alerts runs so far
    lastEvent,      \* what the last step did
    args,           \* inputs of a stand-alone application of the pure functions
    result          \* what that application has computed so far

vars == <<clock, store, config, queue, pending, alerts, notifications, ticks, lastEvent,
          args, result>>

-----------------------------------------------------------------------------
(* Program constants *)

MINUTE_NORMALIZATION == 1
intervals == 8
EXPIRES == 120
COOLDOWN == 120
DEFAULT_ALERT_PROJECT_THRESHOLD == <<250, 5>>

\* timedelta(minutes=m), in seconds
Minutes(m) == 60 * m

\* timedelta.seconds: the seconds component of a non-negative timedelta
Seconds(d) == d % 86400

\* width of one counter bucket, in seconds
BucketSeconds == Minutes(MINUTE_NORMALIZATION)

-----------------------------------------------------------------------------
(* Bounds *)

Projects == {1, 2}
StartBucket == intervals + 1
StartOffset == 30
StartClock == StartBucket * BucketSeconds + StartOffset
ClockStep == 75
Horizon == 2
MaxClock == StartClock + Horizon * ClockStep
MaxTicks == 2
MaxQueue == 2
MaxCount == 3
MaxNotifs == 3
IngestAmounts == {3}
IngestProjects == {1}

Buckets == 0 .. (MaxClock \div BucketSeconds)
NoRow == -1
Never == -1
NoOption == <<>>
Options == {<<0, 0>>, <<0, 6>>, <<150, 0>>}

\* the counts of the buckets that closed before the model starts
FlatHistory == [b \in 0 .. (StartBucket - 1) |-> 2]
ZeroHistory == [b \in 0 .. (StartBucket - 1) |-> 0]
GapHistory == [b \in 0 .. (StartBucket - 1) |-> IF b = 5 THEN NoRow ELSE 2]
HistoryProfiles == {FlatHistory, ZeroHistory, GapHistory}

\* project 1 takes every profile and every configuration and receives events
\* throughout; the other projects have a full flat history, no ProjectOption
\* row, and received their events in the bucket that is open at the start
InitialHistories ==
    {h \in [Projects -> HistoryProfiles] : \A p \in Projects \ {1} : h[p] = FlatHistory}
InitialConfigs ==
    {c \in [Projects -> Options \cup {NoOption}] : \A p \in Projects \ {1} : c[p] = NoOption}

NoArgs == [raw |-> 0, elapsed |-> 0, later |-> 0]
NoResult == [stage |-> "none", count |-> 0, later |-> 0, outcome |-> "none", previous |-> 0]

NoEvent == [op |-> "none", project_id |-> 0, when |-> 0, count |-> 0, outcome |-> "none"]

-----------------------------------------------------------------------------
(* Counter store *)

DateOf(b) == b * BucketSeconds

CurrentBucket == clock \div BucketSeconds

-----------------------------------------------------------------------------
(* check_alerts *)

\* the inputs <<count, elapsed>> with count <= 60 and elapsed <= 62 at which the
\* double quotient count / ((elapsed + 1) / 60) falls just short of the integer
\* that the exact quotient is, so that int() gives one less
FloatShortfall ==
    {<<23, 22>>, <<23, 45>>, <<31, 30>>, <<31, 61>>, <<33, 32>>,
     <<35, 34>>, <<46, 22>>, <<46, 45>>, <<55, 32>>}

\* mutant of NormalizedCount: the rate shrunk, not stretched, to the minute
NormalizedCount_Inverted(count, elapsed) == (count * (elapsed + 1)) \div 60

\* int(count / (((when - date).seconds + 1) / 60)), true division of doubles
NormalizedCount(count, elapsed) ==
    (count * 60) \div (elapsed + 1)
        - (IF <<count, elapsed>> \in FloatShortfall THEN 1 ELSE 0)

\* mutant of InWindow: the window taken two buckets wide
InWindow_TwoWide(date, when) == date > when - Minutes(2 * MINUTE_NORMALIZATION)

\* filter(date__gt=when - timedelta(minutes=MINUTE_NORMALIZATION), count__gt=0)
InWindow(date, when) == date > when - Minutes(MINUTE_NORMALIZATION)

WindowRows(when) ==
    {r \in Projects \X Buckets :
        /\ store[r[1]][r[2]] # NoRow
        /\ InWindow(DateOf(r[2]), when)
        /\ store[r[1]][r[2]] > 0}

\* mutant of TaskOf: the expiry taken in minutes instead of seconds
TaskOf_ExpiryInMinutes(r, when) ==
    [project_id |-> r[1],
     when |-> when,
     count |-> NormalizedCount(store[r[1]][r[2]], Seconds(when - DateOf(r[2]))),
     expires |-> when + Minutes(EXPIRES)]

\* the task maybe_delay submits for one row of the query
TaskOf(r, when) ==
    [project_id |-> r[1],
     when |-> when,
     count |-> NormalizedCount(store[r[1]][r[2]], Seconds(when - DateOf(r[2]))),
     expires |-> when + EXPIRES]

\* the bag of tasks one run submits: one task per row
SubmittedTasks(when) ==
    LET rows == WindowRows(when)
        tasks == {TaskOf(r, when) : r \in rows}
    IN  [t \in tasks |-> Cardinality({r \in rows : TaskOf(r, when) = t})]

\* mutant of check_alerts: the rows it read are cleared
check_alerts_Clearing ==
    /\ ticks < MaxTicks
    /\ BagCardinality(queue) + BagCardinality(SubmittedTasks(clock)) <= MaxQueue
    /\ ticks' = ticks + 1
    /\ queue' = queue (+) SubmittedTasks(clock)
    /\ store' = [p \in Projects |->
                    [b \in Buckets |->
                        IF <<p, b>> \in WindowRows(clock) THEN 0 ELSE store[p][b]]]
    /\ lastEvent' = [NoEvent EXCEPT !.op = "check_alerts", !.when = clock]
    /\ UNCHANGED <<clock, config, pending, alerts, notifications, args, result>>

\* the periodic task: one task per row of the window, nothing else is touched
check_alerts ==
    /\ ticks < MaxTicks
    /\ BagCardinality(queue) + BagCardinality(SubmittedTasks(clock)) <= MaxQueue
    /\ ticks' = ticks + 1
    /\ queue' = queue (+) SubmittedTasks(clock)
    /\ lastEvent' = [NoEvent EXCEPT !.op = "check_alerts", !.when = clock]
    /\ UNCHANGED <<clock, store, config, pending, alerts, notifications, args, result>>

-----------------------------------------------------------------------------
(* check_project_alerts *)

RECURSIVE SumSeq(_)
SumSeq(x) == IF x = <<>> THEN 0 ELSE Head(x) + SumSeq(Tail(x))

RECURSIVE SumSqDev(_, _, _)
\* sum over a in x of (n*a - total)^2, which is n^2 times the sum of (a - mean)^2
SumSqDev(x, n, total) ==
    IF x = <<>> THEN 0
    ELSE (n * Head(x) - total) * (n * Head(x) - total) + SumSqDev(Tail(x), n, total)

\* mutant of meanstdv: the population deviation, n in place of n - 1
meanstdv_Population(x) ==
    [n |-> Len(x),
     total |-> SumSeq(x),
     sqdev |-> SumSqDev(x, Len(x), SumSeq(x)),
     dof |-> Len(x)]

\* meanstdv(x) returns (mean, std) as floats; here they are kept exact:
\*   mean = total / n          std = sqrt(sqdev / (n * n * dof)), dof = n - 1
meanstdv(x) ==
    [n |-> Len(x),
     total |-> SumSeq(x),
     sqdev |-> SumSqDev(x, Len(x), SumSeq(x)),
     dof |-> Len(x) - 1]

\* previous = (mean + stddev * 2) / MINUTE_NORMALIZATION is zero
PreviousIsZero(st) == st.total = 0 /\ st.sqdev = 0

\* m <= previous, for an integer m >= 0:
\*   m * W * n - total <= 2 * sqrt(sqdev / dof)
PreviousAtLeast(st, m) ==
    LET z == m * MINUTE_NORMALIZATION * st.n - st.total
    IN  \/ z <= 0
        \/ z * st.dof <= (4 * st.sqdev) \div z

\* the %d of previous in the message: previous truncated to an integer
PreviousInt(st) ==
    CHOOSE m \in 0 .. (3 * st.total + 1) :
        PreviousAtLeast(st, m) /\ ~PreviousAtLeast(st, m + 1)

\* (g * g * s) \div x for x > 0, found in stages that stay within 32 bits;
\* a quotient above cap is given as cap + 1
StagedQuotient(g, s, x, cap) ==
    LET u == g * s
        a == u \div x
        b == u % x
    IN  IF g = 0 THEN 0
        ELSE IF a > cap \div g THEN cap + 1
        ELSE g * a + (g * b) \div x

\* mutant of RatioExceeds: >= in place of >
RatioExceeds_Gte(count, st, threshold) ==
    LET x == 100 * count * MINUTE_NORMALIZATION * st.n - threshold * st.total
    IN  /\ x >= 0
        /\ \/ x = 0 /\ st.sqdev = 0
           \/ x > 0 /\ x * st.dof >= StagedQuotient(2 * threshold, st.sqdev, x, x * st.dof)

\* count / previous * 100 > threshold, for previous > 0 and threshold >= 0:
\*   100 * count * W * n - threshold * total > 2 * threshold * sqrt(sqdev / dof)
RatioExceeds(count, st, threshold) ==
    LET x == 100 * count * MINUTE_NORMALIZATION * st.n - threshold * st.total
    IN  /\ x > 0
        /\ x * st.dof > StagedQuotient(2 * threshold, st.sqdev, x, x * st.dof)

\* ProjectOption.objects.get(...), or the default when there is no row
ProjectThreshold(project_id) ==
    IF config[project_id] = NoOption
    THEN DEFAULT_ALERT_PROJECT_THRESHOLD
    ELSE config[project_id]

\* mutant of InHistory: the history runs up to when, not up to min_date
InHistory_UpToWhen(date, when) ==
    LET min_date == when - Minutes(MINUTE_NORMALIZATION)
        max_date == min_date - Minutes(intervals * MINUTE_NORMALIZATION)
    IN  date < when /\ date >= max_date

\* mutant of InHistory: date__gt in place of date__gte
InHistory_GtMax(date, when) ==
    LET min_date == when - Minutes(MINUTE_NORMALIZATION)
        max_date == min_date - Minutes(intervals * MINUTE_NORMALIZATION)
    IN  date < min_date /\ date > max_date

\* filter(project=project_id, date__lt=min_date, date__gte=max_date)
InHistory(date, when) ==
    LET min_date == when - Minutes(MINUTE_NORMALIZATION)
        max_date == min_date - Minutes(intervals * MINUTE_NORMALIZATION)
    IN  date < min_date /\ date >= max_date

HistoryBuckets(project_id, when) ==
    {b \in Buckets : store[project_id][b] # NoRow /\ InHistory(DateOf(b), when)}

\* list(... .values_list('times_seen', flat=True)), in date order
HistoryData(project_id, when) ==
    LET hb == HistoryBuckets(project_id, when)
    IN  [i \in 1 .. Cardinality(hb) |->
            store[project_id][CHOOSE b \in hb : Cardinality({c \in hb : c < b}) = i - 1]]

\* "not threshold and min_events"
NoThreshold(threshold, min_events) == (threshold = 0) /\ (min_events # 0)

\* mutant of Decide: no bail-out on a history of the wrong length
Decide_NoBail(project_id, when, count) ==
    LET threshold == ProjectThreshold(project_id)[1]
        min_events == ProjectThreshold(project_id)[2]
        data == HistoryData(project_id, when)
    IN  IF NoThreshold(threshold, min_events) THEN "no_threshold"
        ELSE IF min_events > count THEN "below_floor"
        ELSE IF PreviousIsZero(meanstdv(data)) THEN "ZeroDivisionError"
        ELSE IF RatioExceeds(count, meanstdv(data), threshold) THEN "alert"
        ELSE "no_anomaly"

\* mutant of Decide: min_events >= count in place of min_events > count
Decide_FloorGte(project_id, when, count) ==
    LET threshold == ProjectThreshold(project_id)[1]
        min_events == ProjectThreshold(project_id)[2]
        data == HistoryData(project_id, when)
    IN  IF NoThreshold(threshold, min_events) THEN "no_threshold"
        ELSE IF min_events >= count THEN "below_floor"
        ELSE IF Len(data) # intervals THEN "insufficient_history"
        ELSE IF PreviousIsZero(meanstdv(data)) THEN "ZeroDivisionError"
        ELSE IF RatioExceeds(count, meanstdv(data), threshold) THEN "alert"
        ELSE "no_anomaly"

\* the body of check_project_alerts up to the call of Alert.maybe_alert
Decide(project_id, when, count) ==
    LET threshold == ProjectThreshold(project_id)[1]
        min_events == ProjectThreshold(project_id)[2]
        data == HistoryData(project_id, when)
    IN  IF NoThreshold(threshold, min_events) THEN "no_threshold"
        ELSE IF min_events > count THEN "below_floor"
        ELSE IF Len(data) # intervals THEN "insufficient_history"
        ELSE IF PreviousIsZero(meanstdv(data)) THEN "ZeroDivisionError"
        ELSE IF RatioExceeds(count, meanstdv(data), threshold) THEN "alert"
        ELSE "no_anomaly"

\* Alert.maybe_alert, the lookup: no record, or the record is older than the cooldown
CooldownPassed(project_id) ==
    \/ alerts[project_id] = Never
    \/ clock - alerts[project_id] > COOLDOWN

\* mutant of Outcome: the notification is sent without asking the deduplicator
Outcome_Bypass(t) ==
    LET d == Decide(t.project_id, t.when, t.count)
    IN  IF d # "alert" THEN d ELSE "notify"

\* mutant of Outcome: Alert.maybe_alert is called without the ratio test
Outcome_NoRatioTest(t) ==
    LET d == Decide(t.project_id, t.when, t.count)
    IN  IF d \notin {"alert", "no_anomaly"} THEN d
        ELSE IF CooldownPassed(t.project_id) THEN "notify"
        ELSE "suppressed"

\* how one run of check_project_alerts ends: an early return, a fault, or the
\* call of Alert.maybe_alert, which suppresses or goes on to notify
Outcome(t) ==
    LET d == Decide(t.project_id, t.when, t.count)
    IN  IF d # "alert" THEN d
        ELSE IF CooldownPassed(t.project_id) THEN "notify"
        ELSE "suppressed"

\* mutant of check_project_alerts: the task is not taken off the queue
check_project_alerts_NoAck(t) ==
    /\ BagIn(t, queue)
    /\ clock <= t.expires
    /\ queue' = queue
    /\ LET outcome == Outcome(t)
       IN  /\ pending' = IF outcome = "notify"
                         THEN pending (+) SetToBag(
                                {[project_id |-> t.project_id,
                                  when |-> t.when,
                                  previous |-> PreviousInt(meanstdv(HistoryData(t.project_id, t.when))),
                                  count |-> t.count,
                                  looked |-> Len(notifications)]})
                         ELSE pending
           /\ lastEvent' = [op |-> "check_project_alerts", project_id |-> t.project_id,
                            when |-> t.when, count |-> t.count, outcome |-> outcome]
    /\ UNCHANGED <<clock, store, config, alerts, notifications, ticks, args, result>>

\* a worker starts a task that has not expired
check_project_alerts(t) ==
    /\ BagIn(t, queue)
    /\ clock <= t.expires
    /\ queue' = queue (-) SetToBag({t})
    /\ LET outcome == Outcome(t)
       IN  /\ pending' = IF outcome = "notify"
                         THEN pending (+) SetToBag(
                                {[project_id |-> t.project_id,
                                  when |-> t.when,
                                  previous |-> PreviousInt(meanstdv(HistoryData(t.project_id, t.when))),
                                  count |-> t.count,
                                  looked |-> Len(notifications)]})
                         ELSE pending
           /\ lastEvent' = [op |-> "check_project_alerts", project_id |-> t.project_id,
                            when |-> t.when, count |-> t.count, outcome |-> outcome]
    /\ UNCHANGED <<clock, store, config, alerts, notifications, ticks, args, result>>

\* Alert.maybe_alert, the write: create/update the record and deliver the notification
AlertWrite(e) ==
    /\ BagIn(e, pending)
    /\ Len(notifications) < MaxNotifs
    /\ pending' = pending (-) SetToBag({e})
    /\ alerts' = [alerts EXCEPT ![e.project_id] = clock]
    /\ notifications' = Append(notifications,
            [project_id |-> e.project_id, when |-> e.when, count |-> e.count,
             previous |-> e.previous, at |-> clock, looked |-> e.looked])
    /\ lastEvent' = [op |-> "notify", project_id |-> e.project_id,
                     when |-> clock, count |-> e.count, outcome |-> "notified"]
    /\ UNCHANGED <<clock, store, config, queue, ticks, args, result>>

\* the task layer drops a task whose expiry passed before it started
DropExpired(t) ==
    /\ BagIn(t, queue)
    /\ clock > t.expires
    /\ queue' = queue (-) SetToBag({t})
    /\ lastEvent' = [op |-> "expired", project_id |-> t.project_id,
                     when |-> t.when, count |-> t.count, outcome |-> "dropped"]
    /\ UNCHANGED <<clock, store, config, pending, alerts, notifications, ticks, args, result>>

-----------------------------------------------------------------------------
(* Environment: the counter store's writer and the passing of time *)

Ingest(p, n) ==
    /\ store[p][CurrentBucket] + n <= MaxCount
    /\ store' = [store EXCEPT ![p][CurrentBucket] =
                    IF @ = NoRow THEN n ELSE @ + n]
    /\ lastEvent' = NoEvent
    /\ UNCHANGED <<clock, config, queue, pending, alerts, notifications, ticks, args, result>>

Advance ==
    /\ clock + ClockStep <= MaxClock
    /\ clock' = clock + ClockStep
    /\ lastEvent' = NoEvent
    /\ UNCHANGED <<store, config, queue, pending, alerts, notifications, ticks, args, result>>

-----------------------------------------------------------------------------

Init ==
    /\ clock = StartClock
    /\ \E h \in InitialHistories :
            store = [p \in Projects |->
                        [b \in Buckets |->
                            IF b < StartBucket THEN h[p][b]
                            ELSE IF b = StartBucket /\ p \notin IngestProjects THEN MaxCount + 1
                            ELSE NoRow]]
    /\ config \in InitialConfigs
    /\ queue = EmptyBag
    /\ pending = EmptyBag
    /\ alerts = [p \in Projects |-> Never]
    /\ notifications = <<>>
    /\ ticks = 0
    /\ lastEvent = NoEvent
    /\ args = NoArgs
    /\ result = NoResult

Next ==
    \/ check_alerts
    \/ \E t \in BagToSet(queue) : check_project_alerts(t)
    \/ \E e \in BagToSet(pending) : AlertWrite(e)
    \/ \E t \in BagToSet(queue) : DropExpired(t)
    \/ \E p \in IngestProjects, n \in IngestAmounts : Ingest(p, n)
    \/ Advance

Spec == Init /\ [][Next]_vars

\* a worker takes a task off the queue; the steps of Next that do so are
\* check_project_alerts (the task has not expired) and DropExpired (it has),
\* and one of the two is enabled for every queued task
Dequeue ==
    \E t \in BagToSet(queue) : queue' = queue (-) SetToBag({t})

\* the workers keep taking tasks while the queue holds any
FairSpec == Init /\ [][Next]_vars /\ WF_queue(Dequeue)

-----------------------------------------------------------------------------
(* The normalization and the decision applied to one reading of one bucket *)

MaxElapsed == 60
RawCounts == {1, 12, 23, 40}
FnProject == 1
FnOption == <<150, 5>>
SampleHistory == <<10, 12, 9, 11, 10, 13, 10, 11>>
SpikeHistory == <<1, 1, 1, 1, 1, 1, 1, 6>>
FnHistories == {SampleHistory, SpikeHistory}

\* project FnProject has a history in the intervals buckets before the open
\* bucket StartBucket, which holds raw events and is read elapsed seconds after
\* it opened (and, for comparison, later seconds after)
FnInit ==
    /\ \E raw \in RawCounts, e \in 0 .. MaxElapsed, l \in 0 .. MaxElapsed, h \in FnHistories :
          /\ e <= l
          /\ args = [raw |-> raw, elapsed |-> e, later |-> l]
          /\ clock = DateOf(StartBucket) + e
          /\ store = [p \in Projects |->
                        [b \in Buckets |->
                            IF p = FnProject /\ b \in 1 .. intervals THEN h[b]
                            ELSE IF p = FnProject /\ b = StartBucket THEN raw
                            ELSE NoRow]]
    /\ config = [p \in Projects |-> IF p = FnProject THEN FnOption ELSE NoOption]
    /\ queue = EmptyBag
    /\ pending = EmptyBag
    /\ alerts = [p \in Projects |-> Never]
    /\ notifications = <<>>
    /\ ticks = 0
    /\ lastEvent = NoEvent
    /\ result = NoResult

\* check_alerts: normalized_count of the reading
FnNormalize ==
    /\ result.stage = "none"
    /\ result' = [NoResult EXCEPT
                    !.stage = "normalized",
                    !.count = NormalizedCount(args.raw, Seconds(args.elapsed)),
                    !.later = NormalizedCount(args.raw, Seconds(args.later))]
    /\ UNCHANGED <<clock, store, config, queue, pending, alerts, notifications,
                   ticks, lastEvent, args>>

\* check_project_alerts(project_id, when, count): the decision, and the previous
\* of the message
FnEvaluate ==
    /\ result.stage = "normalized"
    /\ LET data == HistoryData(FnProject, clock)
       IN  result' = [result EXCEPT
                        !.stage = "evaluated",
                        !.outcome = Decide(FnProject, clock, result.count),
                        !.previous = IF Len(data) = intervals
                                     THEN PreviousInt(meanstdv(data)) ELSE 0]
    /\ UNCHANGED <<clock, store, config, queue, pending, alerts, notifications,
                   ticks, lastEvent, args>>

FnNext == FnNormalize \/ FnEvaluate

FnSpec == FnInit /\ [][FnNext]_vars

-----------------------------------------------------------------------------
(* Properties *)

\* the last step was a run of check_project_alerts
Evaluated == lastEvent.op = "check_project_alerts"

\* the run called Alert.maybe_alert
CalledMaybeAlert == lastEvent.outcome \in {"notify", "suppressed"}

\* the number of queued tasks of one project
QueuedFor(q, p) ==
    LET ts == {t \in BagToSet(q) : t.project_id = p}
    IN  BagCardinality([t \in ts |-> q[t]])

SameKey(i, j) == notifications[i].project_id = notifications[j].project_id

\* C1 as stated: for every alert key, and also when two evaluations of the same
\* project run concurrently, two notifications of one key are never closer
\* together than the cooldown.
C1_AtMostOnePerCooldown ==
    \A i, j \in DOMAIN notifications :
        (i < j /\ SameKey(i, j))
            => notifications[j].at - notifications[i].at >= COOLDOWN

\* C1 amended: two notifications of one alert key are within one cooldown of
\* each other only if the later one's cooldown lookup ran before the earlier
\* one's record was written (the two evaluations raced past the lookup).
C1_OnePerCooldownUnlessRaced ==
    \A i, j \in DOMAIN notifications :
        (i < j /\ SameKey(i, j)
               /\ notifications[j].at - notifications[i].at <= COOLDOWN)
            => notifications[j].looked < i

\* two notifications of one key within one cooldown of each other
C1_Witness ==
    \E i, j \in DOMAIN notifications :
        /\ i < j
        /\ SameKey(i, j)
        /\ notifications[j].at - notifications[i].at <= COOLDOWN

\* C2: an alert candidate that comes after a notification of the same key is
\* suppressed, without a fault, when less than the cooldown has passed, and
\* goes on to notify when more than the cooldown has passed; the notification
\* then bumps last_notified_at to its own time.
C2_DedupCooldown ==
    /\ (Evaluated /\ CalledMaybeAlert /\ alerts[lastEvent.project_id] # Never) =>
          /\ clock - alerts[lastEvent.project_id] < COOLDOWN
                => lastEvent.outcome = "suppressed"
          /\ clock - alerts[lastEvent.project_id] > COOLDOWN
                => lastEvent.outcome = "notify"
    /\ lastEvent.op = "notify" =>
          /\ notifications # <<>>
          /\ notifications[Len(notifications)].project_id = lastEvent.project_id
          /\ notifications[Len(notifications)].at = clock
          /\ alerts[lastEvent.project_id] = clock

\* the second of two notifications of one key has just been issued, more than
\* a cooldown after the first, which it had looked up
C2_Witness ==
    /\ lastEvent.op = "notify"
    /\ \E i \in DOMAIN notifications :
          /\ i < Len(notifications)
          /\ SameKey(i, Len(notifications))
          /\ notifications[Len(notifications)].looked >= i
          /\ notifications[Len(notifications)].at - notifications[i].at > COOLDOWN

\* C3: a run whose history query returns a number of buckets other than
\* intervals (8) never calls Alert.maybe_alert.
C3_NoAlertOnInsufficientData ==
    (Evaluated /\ Cardinality(HistoryBuckets(lastEvent.project_id, lastEvent.when)) # intervals)
        => ~CalledMaybeAlert

\* a run that got past the threshold and floor checks and bailed out on the history
C3_Witness == Evaluated /\ lastEvent.outcome = "insufficient_history"

\* C4 as stated: with an effective threshold of zero no alert is raised,
\* whatever min_events is.
C4_NoAlertOnZeroThreshold ==
    (Evaluated /\ ProjectThreshold(lastEvent.project_id)[1] = 0) => ~CalledMaybeAlert

\* C5 as stated: with a sufficient history of zero counts the run ends with an
\* alert or no-alert decision, never with a division by zero.
C5_NoArithmeticFault ==
    (/\ Evaluated
     /\ Len(HistoryData(lastEvent.project_id, lastEvent.when)) = intervals
     /\ \A i \in 1 .. intervals : HistoryData(lastEvent.project_id, lastEvent.when)[i] = 0)
        => lastEvent.outcome # "ZeroDivisionError"

\* C6: a task still queued more than EXPIRES (120) seconds after check_alerts
\* submitted it is only ever removed by being dropped: the step leaves the Alert
\* records, the notifications and the pending maybe_alert calls unchanged and
\* puts nothing back on the queue; and no run starts after its task's expiry.
C6_ExpiredDiscarded ==
    /\ [](Evaluated => clock <= lastEvent.when + EXPIRES)
    /\ [][\A t \in BagToSet(queue) :
            (clock > t.when + EXPIRES /\ CopiesIn(t, queue') < CopiesIn(t, queue))
                => /\ lastEvent'.outcome = "dropped"
                   /\ BagCardinality(queue') = BagCardinality(queue) - 1
                   /\ UNCHANGED <<alerts, notifications, pending, store>>]_vars

\* an expired task has just been dropped
C6_Witness ==
    /\ lastEvent.op = "expired"
    /\ clock > lastEvent.when + EXPIRES

C8_WindowNotInHistory ==
    Evaluated =>
        \A b \in HistoryBuckets(lastEvent.project_id, lastEvent.when) :
            ~(DateOf(b) > lastEvent.when - 60 * MINUTE_NORMALIZATION)

\* a run that read a full history while the project had a row in the window
C8_Witness ==
    /\ Evaluated
    /\ Cardinality(HistoryBuckets(lastEvent.project_id, lastEvent.when)) = intervals
    /\ \E b \in Buckets :
          /\ store[lastEvent.project_id][b] > 0
          /\ DateOf(b) > lastEvent.when - 60 * MINUTE_NORMALIZATION

\* the integer square root of q, found by bisection of lo .. hi
RECURSIVE ISqrt(_, _, _)
ISqrt(q, lo, hi) ==
    IF lo >= hi THEN lo
    ELSE LET mid == (lo + hi + 1) \div 2
         IN  IF mid * mid <= q THEN ISqrt(q, mid, hi) ELSE ISqrt(q, lo, mid - 1)

\* count / expected_rate * 100 > threshold_pct, with expected_rate = (mean + 2 * std) / W
\* and std the sample standard deviation:
\*   (n - 1) * (100 * count * W * n - threshold * total) > sqrt(4 * threshold^2 * sqdev * (n - 1))
RatioAboveThreshold(count, data, threshold) ==
    LET n == Len(data)
        total == SumSeq(data)
        lhs == (n - 1) * (100 * count * MINUTE_NORMALIZATION * n - threshold * total)
        q == 4 * threshold * threshold * SumSqDev(data, n, total) * (n - 1)
    IN  lhs > ISqrt(q, 0, 46340)

C10_BelowFloorSkips ==
    /\ (Evaluated /\ lastEvent.count < ProjectThreshold(lastEvent.project_id)[2])
          => lastEvent.outcome \in {"no_threshold", "below_floor"}
    /\ (Evaluated /\ lastEvent.outcome = "below_floor")
          => lastEvent.count < ProjectThreshold(lastEvent.project_id)[2]
    /\ (Evaluated /\ lastEvent.count = ProjectThreshold(lastEvent.project_id)[2])
          => lastEvent.outcome # "below_floor"

\* a run skipped for a count below the floor
C10_Witness ==
    /\ Evaluated
    /\ lastEvent.outcome = "below_floor"
    /\ lastEvent.count < ProjectThreshold(lastEvent.project_id)[2]

\* two notifications come from the same evaluation request
SameRequest(i, j) ==
    /\ notifications[i].project_id = notifications[j].project_id
    /\ notifications[i].when = notifications[j].when
    /\ notifications[i].count = notifications[j].count

\* the decision as a function of the option pair, the history and the count
\* alone
DecisionOf(option, data, count) ==
    IF option[1] = 0 /\ option[2] # 0 THEN "no_threshold"
    ELSE IF count < option[2] THEN "below_floor"
    ELSE IF Len(data) # intervals THEN "insufficient_history"
    ELSE IF \A i \in DOMAIN data : data[i] = 0 THEN "ZeroDivisionError"
    ELSE IF RatioAboveThreshold(count, data, option[1]) THEN "alert"
    ELSE "no_anomaly"

\* the decision of every queued request is the same after any step as before
\* it (a step that leaves store and config alone leaves all that Decide reads)
DecisionStable ==
    [][(store' # store \/ config' # config) =>
          \A t \in BagToSet(queue) :
             \A opt \in {ProjectThreshold(t.project_id)'},
                data \in {HistoryData(t.project_id, t.when)'} :
                DecisionOf(opt, data, t.count) = Decide(t.project_id, t.when, t.count)]_vars

Whens == {StartClock + k * ClockStep : k \in 0 .. Horizon}

\* a request of project p made at w is queued
Queued(p, w) == \E t \in BagToSet(queue) : t.project_id = p /\ t.when = w

\* C12: a queued request leaves the queue one copy at a time, by being
\* evaluated if it has not expired and by being dropped if it has, never both;
\* every evaluation takes its request off the queue, so no copy is evaluated
\* twice; and with workers that keep taking tasks every queued request is
\* eventually consumed.
C12_ConsumedExactlyOnce ==
    /\ [][\A t \in BagToSet(queue) :
            CopiesIn(t, queue') < CopiesIn(t, queue)
                => /\ CopiesIn(t, queue') = CopiesIn(t, queue) - 1
                   /\ BagCardinality(queue') = BagCardinality(queue) - 1
                   /\ lastEvent'.project_id = t.project_id
                   /\ lastEvent'.when = t.when
                   /\ lastEvent'.count = t.count
                   /\ lastEvent'.op = IF clock <= t.when + EXPIRES
                                      THEN "check_project_alerts" ELSE "expired"]_vars
    /\ [][lastEvent'.op \in {"check_project_alerts", "expired"}
            => \E t \in BagToSet(queue) :
                  /\ t.project_id = lastEvent'.project_id
                  /\ t.when = lastEvent'.when
                  /\ t.count = lastEvent'.count
                  /\ queue' = queue (-) SetToBag({t})]_vars
    /\ \A p \in Projects, w \in Whens : Queued(p, w) ~> ~Queued(p, w)

\* the last queued request has been evaluated after another was dropped
C12_Witness ==
    /\ Evaluated
    /\ queue = EmptyBag
    /\ ticks > 1
    /\ clock > StartClock + EXPIRES

\* C13: for a fixed raw count the normalized count at a later reading is no
\* greater than at an earlier one, and the divisor (elapsed + 1) / 60 of either
\* reading is not zero.
C13_NormalizedNonIncreasing ==
    (result.stage # "none")
        => /\ result.later <= result.count
           /\ Seconds(args.elapsed) + 1 > 0
           /\ Seconds(args.later) + 1 > 0

\* a later reading of the same raw count has given a strictly smaller rate
C13_Witness ==
    /\ result.stage = "normalized"
    /\ args.elapsed < args.later
    /\ result.later < result.count

\* the reading of the end-to-end scenarios: the sample history, threshold 150
\* and floor 5, raw events read elapsed seconds after the bucket opened
Scenario(raw, elapsed) ==
    /\ result.stage = "evaluated"
    /\ args.raw = raw
    /\ args.elapsed = elapsed
    /\ HistoryData(FnProject, clock) = SampleHistory
    /\ ProjectThreshold(FnProject) = <<150, 5>>

\* C14: 40 events read after 30 seconds are normalized to 80, and an alert is
\* raised whose message says "from 13 to 80".
C14_AlertFrom13To80 ==
    Scenario(40, 30)
        => /\ result.count = 80
           /\ result.outcome = "alert"
           /\ result.previous = 13

\* what the run of the alert scenario gives: the count is 77, and the alert's
\* message says "from 13 to 77"
ScenarioAlertGives77 ==
    Scenario(40, 30)
        => /\ result.count = 77
           /\ result.outcome = "alert"
           /\ result.previous = 13

\* the alert scenario has been evaluated
C14_Witness == Scenario(40, 30) /\ result.outcome = "alert"

ScenarioFullMinuteGives11 ==
    Scenario(12, 60)
        => /\ result.count = 11
           /\ result.outcome = "no_anomaly"
           /\ ~InWindow(DateOf(StartBucket), clock)

\* the no-alert scenario has been evaluated
C15_Witness == Scenario(12, 60) /\ result.outcome = "no_anomaly"

RECURSIVE SumSquares(_)
SumSquares(x) == IF x = <<>> THEN 0 ELSE Head(x) * Head(x) + SumSquares(Tail(x))

\* n * (sum of squares) - (sum)^2, which is n times the sum of squared
\* deviations from the mean, or n * (n - 1) times the sample variance
ScaledVariance(x) == Len(x) * SumSquares(x) - SumSeq(x) * SumSeq(x)

\* the integer part of (mean + 2 * std) / W with std the sample deviation:
\* m <= (mean + 2 * std) / W  iff  (m*W*n - total)^2 * (n - 1) <= 4 * n * ScaledVariance
TextbookPrevious(x) ==
    LET n == Len(x)
        total == SumSeq(x)
        sv == ScaledVariance(x)
        AtLeast(m) == LET z == m * MINUTE_NORMALIZATION * n - total
                      IN  z <= 0 \/ z * z * (n - 1) <= 4 * n * sv
    IN  CHOOSE m \in 0 .. (3 * total + 1) : AtLeast(m) /\ ~AtLeast(m + 1)

\* C17: on a history of intervals (>= 2) counts meanstdv gives the sum over n
\* as the mean and a deviation whose square times n - 1 is the sum of squared
\* deviations from the mean, and the previous of the message is the integer
\* part of (mean + 2 * std) / W.
C17_SampleMeanAndDeviation ==
    LET data == HistoryData(FnProject, clock)
        st == meanstdv(data)
    IN  (result.stage = "evaluated" /\ Len(data) = intervals)
            => /\ st.n = Len(data)
               /\ st.total = SumSeq(data)
               /\ st.dof = Len(data) - 1
               /\ st.sqdev = st.n * ScaledVariance(data)
               /\ result.previous = TextbookPrevious(data)

\* a history on which the n - 1 and the n denominators give different integers
C17_Witness ==
    /\ result.stage = "evaluated"
    /\ HistoryData(FnProject, clock) = SpikeHistory
    /\ result.previous = 5

FullLookback(p, when) ==
    \A d \in (when - 60 * MINUTE_NORMALIZATION * (intervals + 1))
                .. (when - 60 * MINUTE_NORMALIZATION - 1) :
        (d % 60 = 0) => \E b \in Buckets : DateOf(b) = d /\ store[p][b] # NoRow

\* C18: when the store holds a row for every minute of the lookback horizon
\* of an evaluation, the history query gives exactly intervals (8) rows and the
\* evaluation does not end as having insufficient history, whatever the
\* evaluation time is within the minute.
C18_FullLookbackGivesEight ==
    (result.stage = "evaluated" /\ FullLookback(FnProject, clock))
        => /\ Cardinality(HistoryBuckets(FnProject, clock)) = intervals
           /\ Len(HistoryData(FnProject, clock)) = intervals
           /\ result.outcome # "insufficient_history"

\* an evaluation made on the minute, with the whole lookback horizon stored,
\* that went on to the ratio
C18_Witness ==
    /\ result.stage = "evaluated"
    /\ FullLookback(FnProject, clock)
    /\ clock % 60 = 0
    /\ result.outcome \in {"alert", "no_anomaly"}

\* the ways a run ends without an alert
NoAlertOutcomes == {"no_threshold", "below_floor", "insufficient_history", "no_anomaly"}

\* C19: a run of check_project_alerts that ends without an alert leaves the
\* Alert records, the notifications and the pending maybe_alert calls as they
\* were; a run calls Alert.maybe_alert only for a request whose history is
\* full and whose ratio is above the threshold; and nothing but such a call
\* and its write touches them.
C19_NoAlertTouchesNothing ==
    /\ [][(lastEvent'.op = "check_project_alerts" /\ lastEvent'.outcome \in NoAlertOutcomes)
            => UNCHANGED <<alerts, notifications, pending>>]_vars
    /\ [][(lastEvent'.op = "check_project_alerts" /\ lastEvent'.outcome \in {"notify", "suppressed"})
            => \A data \in {HistoryData(lastEvent'.project_id, lastEvent'.when)} :
                  /\ Len(data) = intervals
                  /\ RatioAboveThreshold(lastEvent'.count, data,
                                         ProjectThreshold(lastEvent'.project_id)[1])]_vars
    /\ [][(pending' # pending \/ alerts' # alerts \/ notifications' # notifications)
            => \/ lastEvent'.op = "notify"
               \/ lastEvent'.op = "check_project_alerts" /\ lastEvent'.outcome = "notify"]_vars

\* a run has just ended on a ratio not above the threshold while a
\* notification of the same project was still pending
C19_Witness ==
    /\ Evaluated
    /\ lastEvent.outcome \in NoAlertOutcomes
    /\ \E e \in BagToSet(pending) : e.project_id = lastEvent.project_id

====
